---- MODULE Spec2Model ----
(***************************************************************************)
(* Model of tf-mod-watcher's change propagation engine                     *)
(* (internal/analyzer/analyzer.go) together with the declaration extractor *)
(* it calls (internal/terraform, FindChildModules).                        *)
(*                                                                         *)
(* Paths are strings, modelled as sequences of one-character strings, so   *)
(* that filepath.Clean/Join/Abs/Rel and strings.HasPrefix/TrimPrefix are   *)
(* computed the way the Go library computes them.                          *)
(***************************************************************************)
EXTENDS Integers, Sequences, FiniteSets, TLC

(***************************************************************************)
(* Path library: path/filepath and strings, on sequences of characters.    *)
(***************************************************************************)
Sep == "/"
Dot == <<".">>
DotDot == <<".", ".">>

IsAbs(p) == Len(p) > 0 /\ p[1] = Sep

\* The non-empty elements of p between separators, left to right.
RECURSIVE Segs(_, _, _)
Segs(p, i, cur) ==
    IF i > Len(p)
    THEN (IF cur = <<>> THEN <<>> ELSE <<cur>>)
    ELSE IF p[i] = Sep
         THEN (IF cur = <<>> THEN <<>> ELSE <<cur>>) \o Segs(p, i + 1, <<>>)
         ELSE Segs(p, i + 1, Append(cur, p[i]))

\* Clean's element pass: "." is dropped, ".." removes the element before it,
\* ".." at the root is dropped, a leading ".." of a relative path is kept.
RECURSIVE Resolve(_, _, _)
Resolve(segs, rooted, out) ==
    IF segs = <<>> THEN out
    ELSE LET s == Head(segs)
             r == Tail(segs)
         IN  IF s = Dot THEN Resolve(r, rooted, out)
             ELSE IF s = DotDot
                  THEN IF out # <<>> /\ out[Len(out)] # DotDot
                       THEN Resolve(r, rooted, SubSeq(out, 1, Len(out) - 1))
                       ELSE IF rooted THEN Resolve(r, rooted, out)
                            ELSE Resolve(r, rooted, Append(out, DotDot))
                  ELSE Resolve(r, rooted, Append(out, s))

RECURSIVE JoinSegs(_)
JoinSegs(segs) ==
    IF segs = <<>> THEN <<>>
    ELSE IF Len(segs) = 1 THEN segs[1]
         ELSE segs[1] \o <<Sep>> \o JoinSegs(Tail(segs))

\* filepath.Clean
Clean(p) ==
    LET out == Resolve(Segs(p, 1, <<>>), IsAbs(p), <<>>)
    IN  IF IsAbs(p) THEN <<Sep>> \o JoinSegs(out)
        ELSE IF out = <<>> THEN Dot ELSE JoinSegs(out)

\* filepath.Join of two elements: empty elements are ignored, the rest is
\* joined with the separator and cleaned; "" when both are empty.
Join(a, b) ==
    IF a = <<>> /\ b = <<>> THEN <<>>
    ELSE IF a = <<>> THEN Clean(b)
         ELSE IF b = <<>> THEN Clean(a)
              ELSE Clean(a \o <<Sep>> \o b)

\* The process working directory (os.Getwd), fixed for a run.
Cwd == <<"/", "w">>

\* filepath.Abs
Abs(p) == IF IsAbs(p) THEN Clean(p) ELSE Join(Cwd, p)

\* strings.HasPrefix, strings.TrimPrefix, strings.HasSuffix
HasPrefix(s, pre) == Len(s) >= Len(pre) /\ SubSeq(s, 1, Len(pre)) = pre
TrimPrefix(s, pre) == IF HasPrefix(s, pre) THEN SubSeq(s, Len(pre) + 1, Len(s)) ELSE s
HasSuffix(s, suf) ==
    Len(s) >= Len(suf) /\ SubSeq(s, Len(s) - Len(suf) + 1, Len(s)) = suf

\* Length of the longest common prefix of two element lists.
RECURSIVE CommonLen(_, _)
CommonLen(a, b) ==
    IF a = <<>> \/ b = <<>> \/ Head(a) # Head(b) THEN 0
    ELSE 1 + CommonLen(Tail(a), Tail(b))

\* filepath.Rel on two absolute paths: ".." for every element of base after
\* the common prefix, then the rest of targ; "." when they are equal.
Rel(base, targ) ==
    LET b == Segs(Clean(base), 1, <<>>)
        t == Segs(Clean(targ), 1, <<>>)
        n == CommonLen(b, t)
        ups == [i \in 1..(Len(b) - n) |-> DotDot]
        out == ups \o SubSeq(t, n + 1, Len(t))
    IN  IF out = <<>> THEN Dot ELSE JoinSegs(out)

\* filepath.Dir and filepath.Base of a cleaned absolute path.
Dir(p) ==
    LET s == Segs(p, 1, <<>>)
    IN  IF s = <<>> THEN <<Sep>> ELSE <<Sep>> \o JoinSegs(SubSeq(s, 1, Len(s) - 1))
Base(p) ==
    LET s == Segs(p, 1, <<>>)
    IN  IF s = <<>> THEN <<Sep>> ELSE s[Len(s)]


(***************************************************************************)
(* The world of one run: three module directories under the working        *)
(* directory, each with one declaration file.                              *)
(***************************************************************************)
DirA == <<"/", "w", "/", "a">>
DirB == <<"/", "w", "/", "b">>
DirC == <<"/", "w", "/", "c">>
ModuleDirs == {DirA, DirB, DirC}
BaseDirs == {<<"/">>, Cwd}

MainTf == <<"m", ".", "t", "f">>
TfSuffix == <<".", "t", "f">>

\* Literal source strings a declaration file may hold.
SrcA == <<".", ".", "/", "a">>
SrcB == <<".", ".", "/", "b">>
SrcC == <<".", ".", "/", "c">>
SourcesOf(d) ==
    IF d = DirA THEN {SrcB, SrcC}
    ELSE IF d = DirB THEN {SrcC, SrcA}
         ELSE {}

\* Longest list of module blocks in one declaration file.
MaxRefs == 2
\* Number of top-level IsModuleUpdated calls made in one run.
MaxCalls == 2
\* Deepest recursion the run's stack can hold (Go aborts the process with a
\* stack overflow beyond its limit).
MaxDepth == 4

SeqsUpTo(S, n) == UNION {[1..k -> S] : k \in 0..n}

\* What a declaration file holds: the literal sources of its module blocks,
\* and whether the file parses.
GoodFile(srcs) == [ok |-> TRUE, srcs |-> srcs]
\* A file of d that does not parse, although it holds a module block.
BadFile(d) ==
    [ok |-> FALSE,
     srcs |-> IF d = DirA THEN <<SrcB>> ELSE IF d = DirB THEN <<SrcC>> ELSE <<>>]

\* A module directory is absent, or there with a listing that fails, or
\* there with a declaration file.
DirChoices(d) ==
    {[st |-> "absent", tf |-> GoodFile(<<>>)], [st |-> "nolist", tf |-> GoodFile(<<>>)]}
    \cup {[st |-> "ok", tf |-> BadFile(d)]}
    \cup {[st |-> "ok", tf |-> GoodFile(s)] : s \in SeqsUpTo(SourcesOf(d), MaxRefs)}

Layouts ==
    {l \in [ModuleDirs -> UNION {DirChoices(d) : d \in ModuleDirs}] :
        \A d \in ModuleDirs : l[d] \in DirChoices(d)}

\* Changed-file sets handed to NewAnalyzer, in the caller's spelling.
ChangedInputs ==
    {<<"a", "/">> \o MainTf, Join(DirB, MainTf), Join(DirC, MainTf)}

\* Arguments of IsModuleUpdated: DirA in two spellings, DirB, DirC.
RootSpellings == {<<"a">>, DirA, DirB, DirC}

\* Every path that can become a cache key.
KeyUniverse == ModuleDirs \cup {Abs(r) : r \in RootSpellings}

VARIABLES
    dirs,           \* file system: the existing directories
    noList,         \* file system: directories whose listing fails
    files,          \* file system: file path -> what the file holds
    changedFiles,   \* Analyzer.changedFiles
    analysisCache,  \* Analyzer.analysisCache
    stack,          \* the active IsModuleUpdated calls, outermost first
    crashed,        \* the process died of a stack overflow
    ops,            \* per directory: existence checks, listings, extractions,
                    \* and analyses that ended in an error
    call,           \* cache and ops as they were when the running call began
    hist,           \* the finished top-level calls, oldest first
    batch,          \* the running AnalyzeRootModules, if there is one
    caller,         \* the caller of the Analyzer: the changed-file map it
                    \* passed to NewAnalyzer, the cache map GetAnalysisCache
                    \* returned to it, and how often it called ClearCache
    conv,           \* a call of ConvertToRelativePath: arguments and result
    cli,            \* the run of the command line (runAnalysis)
    ext             \* a call of FindChildModules: argument and result

vars == <<dirs, noList, files, changedFiles, analysisCache, stack, crashed,
          ops, call, hist, batch, caller, conv, cli, ext>>
fsVars == <<dirs, noList, files>>
callerVars == <<caller, conv, cli, ext>>


(***************************************************************************)
(* The operating system calls the code makes.  A relative path is resolved *)
(* against the working directory.                                          *)
(***************************************************************************)
\* An element of p before its last one is a file: the operating system
\* refuses to look below it (ENOTDIR).
BelowFile(p) ==
    LET s == Segs(Abs(p), 1, <<>>)
    IN  \E k \in 1..(Len(s) - 1) : <<Sep>> \o JoinSegs(SubSeq(s, 1, k)) \in DOMAIN files

\* os.Stat(p) does not report "not exist": it succeeds, or it fails with
\* another error, which os.IsNotExist does not recognise (for the empty
\* path it reports "not exist").
StatExists(p) ==
    p # <<>> /\ (Abs(p) \in dirs \cup DOMAIN files \/ BelowFile(p))

\* os.ReadDir(p) fails: p is no directory, or its listing is refused.
ReadDirFails(p) == p = <<>> \/ Abs(p) \notin dirs \/ Abs(p) \in noList

\* os.ReadDir(p): the entries immediately inside p, as a set of
\* [name, isDir] (see SortedNames for the order os.ReadDir returns them in).
ReadDir(p) ==
    LET d == Abs(p)
    IN  {[name |-> Base(e), isDir |-> e \in dirs] :
            e \in {x \in dirs \cup DOMAIN files : x # <<Sep>> /\ Dir(x) = d}}

\* Byte order of the characters file names are made of.
CharRank(c) ==
    CASE c = "." -> 46 [] c = "/" -> 47 [] c = "2" -> 50
      [] c = "a" -> 97 [] c = "b" -> 98 [] c = "c" -> 99 [] c = "f" -> 102
      [] c = "m" -> 109 [] c = "t" -> 116 [] c = "w" -> 119 [] c = "x" -> 120

RECURSIVE StrLess(_, _)
StrLess(a, b) ==
    IF b = <<>> THEN FALSE
    ELSE IF a = <<>> THEN TRUE
         ELSE IF Head(a) = Head(b) THEN StrLess(Tail(a), Tail(b))
              ELSE CharRank(Head(a)) < CharRank(Head(b))

\* os.ReadDir returns its entries sorted by file name.
RECURSIVE SortedNames(_)
SortedNames(S) ==
    IF S = {} THEN <<>>
    ELSE LET m == CHOOSE x \in S : \A y \in S : x = y \/ StrLess(x, y)
         IN  <<m>> \o SortedNames(S \ {m})

(***************************************************************************)
(* internal/terraform: the declaration extractor.                          *)
(* An operator that can fail returns a record with an err field.           *)
(***************************************************************************)
\* findTerraformFiles: the .tf files immediately inside dir, in name order.
findTerraformFiles(dir) ==
    IF ReadDirFails(dir) THEN [err |-> TRUE, tfFiles |-> <<>>]
    ELSE LET names == SortedNames({e.name : e \in
                          {x \in ReadDir(dir) : ~x.isDir /\ HasSuffix(x.name, TfSuffix)}})
         IN  [err |-> FALSE, tfFiles |-> [i \in 1..Len(names) |-> Join(dir, names[i])]]

\* extractModuleSources: the literal source strings of the module blocks of
\* one file, or an error when the file cannot be read or parsed.
extractModuleSources(filePath) ==
    IF Abs(filePath) \notin DOMAIN files \/ ~files[Abs(filePath)].ok
    THEN [err |-> TRUE, sources |-> <<>>]
    ELSE [err |-> FALSE, sources |-> files[Abs(filePath)].srcs]

\* resolveModulePath
resolveModulePath(moduleDir, source) == Clean(Join(moduleDir, source))

\* Faulty variant of the inner loop of FindChildModules: an absolute source
\* that names an existing directory is followed.
RECURSIVE ResolveSourcesAbs(_, _)
ResolveSourcesAbs(moduleDir, sources) ==
    IF sources = <<>> THEN <<>>
    ELSE LET source == Head(sources)
             rest == ResolveSourcesAbs(moduleDir, Tail(sources))
         IN  IF IsAbs(source)
             THEN IF StatExists(source) THEN <<Clean(source)>> \o rest ELSE rest
             ELSE IF ~StatExists(Join(moduleDir, source)) THEN rest
                  ELSE <<resolveModulePath(moduleDir, source)>> \o rest

\* The inner loop of FindChildModules over the sources of one file.
RECURSIVE ResolveSources(_, _)
ResolveSources(moduleDir, sources) ==
    IF sources = <<>> THEN <<>>
    ELSE LET source == Head(sources)
             rest == ResolveSources(moduleDir, Tail(sources))
         IN  IF ~StatExists(Join(moduleDir, source)) THEN rest
             ELSE IF IsAbs(source) THEN rest
                  ELSE <<resolveModulePath(moduleDir, source)>> \o rest

\* Faulty variant of the outer loop of FindChildModules: a file that does not
\* parse is passed over.
RECURSIVE CollectChildrenSkipBad(_, _)
CollectChildrenSkipBad(moduleDir, tfFiles) ==
    IF tfFiles = <<>> THEN [err |-> FALSE, children |-> <<>>]
    ELSE LET modules == extractModuleSources(Head(tfFiles))
             rest == CollectChildrenSkipBad(moduleDir, Tail(tfFiles))
         IN  IF modules.err THEN rest
             ELSE [err |-> FALSE,
                   children |-> ResolveSources(moduleDir, modules.sources)
                                    \o rest.children]

\* The outer loop of FindChildModules over the .tf files.
RECURSIVE CollectChildren(_, _)
CollectChildren(moduleDir, tfFiles) ==
    IF tfFiles = <<>> THEN [err |-> FALSE, children |-> <<>>]
    ELSE LET modules == extractModuleSources(Head(tfFiles))
             rest == CollectChildren(moduleDir, Tail(tfFiles))
         IN  IF modules.err \/ rest.err THEN [err |-> TRUE, children |-> <<>>]
             ELSE [err |-> FALSE,
                   children |-> ResolveSources(moduleDir, modules.sources)
                                    \o rest.children]

\* FindChildModules
FindChildModules(moduleDir) ==
    LET found == findTerraformFiles(moduleDir)
    IN  IF found.err THEN [err |-> TRUE, children |-> <<>>]
        ELSE CollectChildren(moduleDir, found.tfFiles)


(***************************************************************************)
(* internal/analyzer: the Analyzer.                                        *)
(***************************************************************************)
\* NewAnalyzer: the changed-file set, each member made absolute.
NewAnalyzer(changed) == {Abs(path) : path \in changed}

\* The key getAnalysisCache and setAnalysisCache use for moduleDir.
CacheKey(moduleDir) ==
    Clean(IF ~IsAbs(moduleDir) THEN Abs(moduleDir) ELSE moduleDir)

\* Faulty variant of getAnalysisCache: the lookup never finds an entry.
getAnalysisCacheMiss(moduleDir) == [found |-> FALSE, updated |-> FALSE]

\* Faulty variant of getAnalysisCache: a module whose analysis is under way
\* further up the call chain is reported as found, not updated.
getAnalysisCacheInFlight(moduleDir) ==
    LET key == CacheKey(moduleDir)
    IN  IF key \in DOMAIN analysisCache
        THEN [found |-> TRUE, updated |-> analysisCache[key]]
        ELSE [found |-> \E n \in 1..(Len(stack) - 1) : CacheKey(stack[n].dir) = key,
              updated |-> FALSE]

\* getAnalysisCache
getAnalysisCache(moduleDir) ==
    LET key == CacheKey(moduleDir)
    IN  [found |-> key \in DOMAIN analysisCache,
         updated |-> IF key \in DOMAIN analysisCache THEN analysisCache[key] ELSE FALSE]

\* Faulty variant of setAnalysisCache: the key is moduleDir as given, not
\* made absolute.
setAnalysisCacheRaw(moduleDir, updated) ==
    [k \in DOMAIN analysisCache \cup {moduleDir} |->
        IF k = moduleDir THEN updated ELSE analysisCache[k]]

\* Faulty variant of setAnalysisCache: the new entry replaces the map.
setAnalysisCacheOnly(moduleDir, updated) ==
    [k \in {CacheKey(moduleDir)} |-> updated]

\* Faulty variant of setAnalysisCache: only a verdict of true is recorded.
setAnalysisCacheTrueOnly(moduleDir, updated) ==
    IF updated
    THEN [k \in DOMAIN analysisCache \cup {CacheKey(moduleDir)} |->
            IF k = CacheKey(moduleDir) THEN TRUE ELSE analysisCache[k]]
    ELSE analysisCache

\* setAnalysisCache: the cache after a.analysisCache[key] = updated.
setAnalysisCache(moduleDir, updated) ==
    LET key == CacheKey(moduleDir)
    IN  [k \in DOMAIN analysisCache \cup {key} |->
            IF k = key THEN updated ELSE analysisCache[k]]

\* Faulty variant of the existence check: every directory is taken to exist.
ModuleMissingNever(moduleDir) == FALSE

\* The existence check of IsModuleUpdated (line 83).
ModuleMissing(moduleDir) == ~StatExists(moduleDir)

\* Faulty variant of hasDirectFileChanges: the entry's path is compared as
\* joined, without being made absolute.
hasDirectFileChangesNoAbs(moduleDir) ==
    IF ReadDirFails(Clean(moduleDir)) THEN [err |-> TRUE, val |-> FALSE]
    ELSE [err |-> FALSE,
          val |-> \E entry \in ReadDir(Clean(moduleDir)) :
                      /\ ~entry.isDir
                      /\ Join(Clean(moduleDir), entry.name) \in changedFiles]

\* Faulty variant of hasDirectFileChanges: a changed path counts when it
\* lies immediately inside the module directory, whether or not the
\* directory still has such an entry and whether or not it is a file.
hasDirectFileChangesByPath(moduleDir) ==
    IF ReadDirFails(Clean(moduleDir)) THEN [err |-> TRUE, val |-> FALSE]
    ELSE [err |-> FALSE,
          val |-> \E f \in changedFiles : Dir(f) = Abs(Clean(moduleDir))]

\* Faulty variant of hasDirectFileChanges: a changed file counts when its
\* path begins with the path of the module directory.
hasDirectFileChangesPrefix(moduleDir) ==
    IF ReadDirFails(Clean(moduleDir)) THEN [err |-> TRUE, val |-> FALSE]
    ELSE [err |-> FALSE,
          val |-> \E f \in changedFiles : HasPrefix(f, Abs(Clean(moduleDir)))]

\* hasDirectFileChanges
hasDirectFileChanges(moduleDir) ==
    IF ReadDirFails(Clean(moduleDir)) THEN [err |-> TRUE, val |-> FALSE]
    ELSE [err |-> FALSE,
          val |-> \E entry \in ReadDir(Clean(moduleDir)) :
                      /\ ~entry.isDir
                      /\ Abs(Clean(Join(Clean(moduleDir), entry.name))) \in changedFiles]

\* One activation of IsModuleUpdated: moduleDir after line 68, where the
\* activation stands, the children it iterates over and the index of the
\* one it is at, and, once it has returned, what it returned.
NewFrame(moduleDir) ==
    [dir |-> Clean(moduleDir), pc |-> "enter", children |-> <<>>, i |-> 0,
     val |-> FALSE, err |-> FALSE]

Returned(f, val, err) == [f EXCEPT !.pc = "ret", !.val = val, !.err = err]

\* Faulty variants of the two failure returns: a failed listing reported as
\* "not updated", a failed extraction reported as an error.
ListFailOpen(f) == Returned(f, FALSE, FALSE)
ExtractFailClosed(f) == Returned(f, FALSE, TRUE)

\* The return of lines 94-96: the listing failed.
ListFailed(f) == Returned(f, FALSE, TRUE)

\* The return of lines 110-119: the extractor failed.
ExtractFailed(f) == Returned(f, FALSE, FALSE)

Top == stack[Len(stack)]
SetTop(f) == [stack EXCEPT ![Len(stack)] = f]

OpKinds == {"stat", "list", "extract", "fail", "write"}
Count(kinds, key) ==
    [kind \in OpKinds |-> IF kind \in kinds THEN [ops[kind] EXCEPT ![key] = @ + 1]
                          ELSE ops[kind]]
NoOps == [kind \in OpKinds |-> [k \in KeyUniverse |-> 0]]
EmptyCache == [k \in {} |-> FALSE]
NoBatch ==
    [pc |-> "off", roots |-> <<>>, base |-> <<>>, i |-> 0, out |-> <<>>,
     result |-> "none", err |-> FALSE]
\* The caller's changed-file map (as given to NewAnalyzer, and as it is
\* now).  The caller holds no cache map, or the map the Analyzer uses
\* ("current"), or one that ClearCache has since replaced ("old", with what
\* it holds).
NewCaller(changed) ==
    [given |-> changed, files |-> changed, ref |-> "none", old |-> EmptyCache,
     clears |-> 0]
NoConv == [pc |-> "off", basePath |-> <<>>, absolutePath |-> <<>>,
           path |-> <<>>, err |-> FALSE]
NoArgs == [basePath |-> <<>>, changedFile |-> {}, gitRepoRootPath |-> <<>>,
           rootModuleDir |-> <<>>]
NoExt == [pc |-> "off", moduleDir |-> <<>>, children |-> <<>>, err |-> FALSE]
NoCli == [pc |-> "off", args |-> NoArgs, basePath |-> <<>>, changed |-> {},
          roots |-> <<>>, out |-> <<>>, failed |-> "no"]

\* IsModuleUpdated is called from outside (not from itself).
IsModuleUpdated(moduleDir) ==
    /\ batch.pc = "off"
    /\ stack = <<>>
    /\ ~crashed
    /\ Len(hist) < MaxCalls
    /\ stack' = <<NewFrame(moduleDir)>>
    /\ call' = [arg |-> moduleDir, cache |-> analysisCache, ops |-> ops]
    /\ UNCHANGED <<fsVars, callerVars, changedFiles, analysisCache, crashed, ops, hist, batch>>

\* IsModuleUpdated from its first line to the head of the loop over the
\* children (lines 68-121).
Enter ==
    /\ stack # <<>>
    /\ ~crashed
    /\ Top.pc = "enter"
    /\ LET moduleDir == Top.dir
           key == CacheKey(moduleDir)
           cached == getAnalysisCache(moduleDir)
           direct == hasDirectFileChanges(moduleDir)
           found == FindChildModules(moduleDir)
       IN  IF cached.found
           THEN /\ stack' = SetTop(Returned(Top, cached.updated, FALSE))
                /\ UNCHANGED <<analysisCache, ops>>
           ELSE IF ModuleMissing(moduleDir)
           THEN /\ analysisCache' = setAnalysisCache(moduleDir, FALSE)
                /\ stack' = SetTop(Returned(Top, FALSE, FALSE))
                /\ ops' = Count({"stat", "write"}, key)
           ELSE IF direct.err
           THEN /\ stack' = SetTop(ListFailed(Top))
                /\ ops' = Count({"stat", "list", "fail"}, key)
                /\ UNCHANGED analysisCache
           ELSE IF direct.val
           THEN /\ analysisCache' = setAnalysisCache(moduleDir, TRUE)
                /\ stack' = SetTop(Returned(Top, TRUE, FALSE))
                /\ ops' = Count({"stat", "list", "write"}, key)
           ELSE IF found.err
           THEN /\ analysisCache' = setAnalysisCache(moduleDir, FALSE)
                /\ stack' = SetTop(ExtractFailed(Top))
                /\ ops' = Count({"stat", "list", "extract", "write"}, key)
           ELSE /\ stack' = SetTop([Top EXCEPT !.pc = "loop",
                                               !.children = found.children, !.i = 1])
                /\ ops' = Count({"stat", "list", "extract"}, key)
                /\ UNCHANGED analysisCache
    /\ UNCHANGED <<fsVars, callerVars, changedFiles, crashed, call, hist, batch>>

\* The head of the loop over the children (line 124): the recursive call on
\* the next child (line 125), or, past the last child, lines 140-146.
Loop ==
    /\ stack # <<>>
    /\ ~crashed
    /\ Top.pc = "loop"
    /\ IF Top.i > Len(Top.children)
       THEN /\ analysisCache' = setAnalysisCache(Top.dir, FALSE)
            /\ stack' = SetTop(Returned(Top, FALSE, FALSE))
            /\ ops' = Count({"write"}, CacheKey(Top.dir))
       ELSE /\ Len(stack) < MaxDepth
            /\ stack' = Append(SetTop([Top EXCEPT !.pc = "wait"]),
                               NewFrame(Top.children[Top.i]))
            /\ UNCHANGED <<analysisCache, ops>>
    /\ UNCHANGED <<fsVars, callerVars, changedFiles, crashed, call, hist, batch>>

\* The recursion has used up the stack: the Go runtime ends the process.
StackOverflow ==
    /\ stack # <<>>
    /\ ~crashed
    /\ Top.pc = "loop"
    /\ Top.i <= Len(Top.children)
    /\ Len(stack) >= MaxDepth
    /\ crashed' = TRUE
    /\ UNCHANGED <<fsVars, callerVars, changedFiles, analysisCache, stack, ops, call, hist, batch>>

\* Faulty variants of AfterChild: a child's true verdict does not end the
\* loop; the loop ends with false after the first child that is not updated.
AfterChildNoShortCircuit(parent, val, err) ==
    IF err THEN Returned(parent, FALSE, TRUE)
    ELSE [parent EXCEPT !.pc = "loop", !.i = @ + 1]
AfterChildFirstOnly(parent, val, err) ==
    IF err THEN Returned(parent, FALSE, TRUE)
    ELSE Returned(parent, val, FALSE)

\* What the caller's activation does with the result of the recursive call
\* (lines 125-137): it returns the error, or records true and returns it,
\* or goes on to the next child.
AfterChild(parent, val, err) ==
    IF err THEN Returned(parent, FALSE, TRUE)
    ELSE IF val THEN Returned(parent, TRUE, FALSE)
         ELSE [parent EXCEPT !.pc = "loop", !.i = @ + 1]

\* Faulty variant of RecordsVerdict: the caller's activation records its
\* value also when it returns the error of a child.
RecordsVerdictAlways(after) == after.pc = "ret"

\* The caller's activation calls setAnalysisCache after a child returned
\* only on the path that returns true (lines 130-136), not on the path
\* that returns the child's error (lines 126-128).
RecordsVerdict(after) == after.pc = "ret" /\ ~after.err

\* An activation returns: to the activation that called it, or, the
\* outermost one, to the caller of IsModuleUpdated.
Return ==
    /\ stack # <<>>
    /\ ~crashed
    /\ Top.pc = "ret"
    /\ IF Len(stack) = 1
       THEN /\ stack' = <<>>
            /\ hist' = Append(hist, [arg |-> call.arg, val |-> Top.val, err |-> Top.err])
            /\ UNCHANGED <<analysisCache, ops>>
       ELSE LET parent == stack[Len(stack) - 1]
                after == AfterChild(parent, Top.val, Top.err)
            IN  /\ stack' = Append(SubSeq(stack, 1, Len(stack) - 2), after)
                /\ analysisCache' = IF RecordsVerdict(after)
                                    THEN setAnalysisCache(parent.dir, after.val)
                                    ELSE analysisCache
                /\ ops' = IF after.pc # "ret" THEN ops
                          ELSE IF after.err
                               THEN Count({"fail"}, CacheKey(parent.dir))
                               ELSE Count({"write"}, CacheKey(parent.dir))
                /\ UNCHANGED hist
    /\ UNCHANGED <<fsVars, callerVars, changedFiles, crashed, call, batch>>

\* The file system of a layout.
LayoutDirs(l) == BaseDirs \cup {d \in ModuleDirs : l[d].st # "absent"}
LayoutNoList(l) == {d \in ModuleDirs : l[d].st = "nolist"}
LayoutFiles(l) ==
    [f \in {Join(d, MainTf) : d \in {x \in ModuleDirs : l[x].st # "absent"}} |->
        l[Dir(f)].tf]

\* An Analyzer just built by NewAnalyzer(changed), on a file system with
\* directories ds (the listing of nl fails) and files fs; on the file system
\* of layout l.
InitOn(ds, nl, fs, changed) ==
    /\ dirs = ds
    /\ noList = nl
    /\ files = fs
    /\ changedFiles = NewAnalyzer(changed)
    /\ analysisCache = EmptyCache
    /\ stack = <<>>
    /\ crashed = FALSE
    /\ ops = NoOps
    /\ call = [arg |-> <<>>, cache |-> EmptyCache, ops |-> NoOps]
    /\ hist = <<>>
    /\ batch = NoBatch
    /\ caller = NewCaller(changed)
    /\ conv = NoConv
    /\ cli = NoCli
    /\ ext = NoExt

InitWith(l, changed) ==
    InitOn(LayoutDirs(l), LayoutNoList(l), LayoutFiles(l), changed)

Init == \E l \in Layouts, changed \in SUBSET ChangedInputs : InitWith(l, changed)

Next ==
    \/ \E moduleDir \in RootSpellings : IsModuleUpdated(moduleDir)
    \/ Enter
    \/ Loop
    \/ StackOverflow
    \/ Return

Spec == Init /\ [][Next]_vars


\* The file systems of the runs whose calls are followed to their end: every
\* module directory is there, with a listing that may fail and declarations
\* that parse.
LiveLayouts == {l \in Layouts : \A d \in ModuleDirs : l[d].st # "absent" /\ l[d].tf.ok}
LiveChanged == {{}, {Join(DirC, MainTf)}}
LiveInit == \E l \in LiveLayouts, changed \in LiveChanged : InitWith(l, changed)

\* A running call takes its next step: nothing in the program suspends or
\* cancels an activation of IsModuleUpdated.  This is weak fairness of Enter,
\* Loop, StackOverflow and Return.  For Enter, Loop and Return, WF_vars(A)
\* is written as []<>~(ENABLED <<A>>_vars) with the enabling condition
\* spelled out, to which it is equivalent here: a step of Enter or Loop
\* leaves the place it starts from, and a step of Return shortens the stack.
AtPc(pc) == stack # <<>> /\ ~crashed /\ Top.pc = pc
EnterEnabled == AtPc("enter")
LoopEnabled == AtPc("loop") /\ (Top.i > Len(Top.children) \/ Len(stack) < MaxDepth)
ReturnEnabled == AtPc("ret")
RunningCallFair ==
    /\ []<>(~EnterEnabled)
    /\ []<>(~LoopEnabled)
    /\ []<>(~ReturnEnabled)
    /\ WF_vars(StackOverflow)

LiveSpec == LiveInit /\ [][Next]_vars /\ RunningCallFair

(***************************************************************************)
(* The same Analyzer on file systems where DirA may hold a second          *)
(* declaration file, x.tf, which os.ReadDir lists after m.tf.              *)
(***************************************************************************)
SecondTf == <<"x", ".", "t", "f">>
SecondFiles ==
    {GoodFile(<<>>), GoodFile(<<SrcC>>), [ok |-> FALSE, srcs |-> <<SrcC>>]}
WithFile(fs, f, content) ==
    [g \in DOMAIN fs \cup {f} |-> IF g = f THEN content ELSE fs[g]]

TwoFileLayouts == {l \in Layouts : l[DirA].st = "ok"}
TwoFileInit ==
    \E l \in TwoFileLayouts, second \in SecondFiles, changed \in LiveChanged :
        InitOn(LayoutDirs(l), LayoutNoList(l),
               WithFile(LayoutFiles(l), Join(DirA, SecondTf), second), changed)

TwoFileSpec == TwoFileInit /\ [][Next]_vars

(***************************************************************************)
(* The same Analyzer on file systems where the declarations of DirA hold   *)
(* sources that FindChildModules does not follow: an absolute path and a   *)
(* remote address, both naming the local module DirC.                      *)
(***************************************************************************)
SrcAbs == DirC
SrcRemote == <<"g", ":", ":">> \o DirC

RemoteChoices(d) ==
    IF d = DirA
    THEN {[st |-> "nolist", tf |-> GoodFile(<<SrcAbs>>)]}
         \cup {[st |-> "ok", tf |-> GoodFile(s)] :
                  s \in SeqsUpTo({SrcAbs, SrcRemote, SrcB}, MaxRefs)}
    ELSE IF d = DirB
    THEN {[st |-> "absent", tf |-> GoodFile(<<>>)],
          [st |-> "ok", tf |-> GoodFile(<<SrcA>>)],
          [st |-> "ok", tf |-> GoodFile(<<SrcC>>)]}
    ELSE DirChoices(d)
RemoteLayouts ==
    {l \in [ModuleDirs -> UNION {RemoteChoices(d) : d \in ModuleDirs}] :
        \A d \in ModuleDirs : l[d] \in RemoteChoices(d)}

RemoteInit ==
    \E l \in RemoteLayouts, changed \in SUBSET ChangedInputs : InitWith(l, changed)
RemoteSpec == RemoteInit /\ [][Next]_vars

(***************************************************************************)
(* FindChildModules on its own: DirA, given in one of two spellings, with  *)
(* one declaration file that parses, whose sources are drawn from strings  *)
(* that name an existing directory, a missing one, an absolute path, a     *)
(* remote module, a path below a file, the directory itself (the empty     *)
(* string) and an existing directory in a spelling that is not clean.      *)
(***************************************************************************)
SrcBelowFile == MainTf \o <<"/", "x">>
SrcUnclean == <<".", ".", "/", "/", "c", "/", ".">>
ExtSources == {SrcB, SrcC, SrcAbs, SrcRemote, SrcBelowFile, <<>>, SrcUnclean}
ExtDirs == {<<"a">>, DirA}

ExtLayout(srcs, b) ==
    [d \in ModuleDirs |->
        IF d = DirA THEN [st |-> "ok", tf |-> GoodFile(srcs)]
        ELSE IF d = DirB THEN b
             ELSE [st |-> "ok", tf |-> GoodFile(<<>>)]]
ExtLayouts ==
    {ExtLayout(srcs, b) : srcs \in SeqsUpTo(ExtSources, MaxRefs),
                          b \in {c \in DirChoices(DirB) : c.tf = GoodFile(<<>>)}}

ExtInit == \E l \in ExtLayouts : InitWith(l, {})

FindChildModulesCall(moduleDir) ==
    /\ ext.pc = "off"
    /\ ext' = LET r == FindChildModules(moduleDir)
              IN  [pc |-> "done", moduleDir |-> moduleDir,
                   children |-> r.children, err |-> r.err]
    /\ UNCHANGED <<fsVars, changedFiles, analysisCache, stack, crashed, ops, call,
                   hist, batch, caller, conv, cli>>

ExtNext == \E moduleDir \in ExtDirs : FindChildModulesCall(moduleDir)

ExtractSpec == ExtInit /\ [][ExtNext]_vars

(***************************************************************************)
(* ConvertToRelativePath and AnalyzeRootModules.                           *)
(***************************************************************************)
MaxRoots == 2
BatchRoots == {<<"a">>, DirB}
BatchBases == {Dot, DirB}

ConvertToRelativePath(basePath, absolutePath) ==
    IF ~IsAbs(basePath) \/ ~IsAbs(absolutePath) THEN [err |-> TRUE, path |-> <<>>]
    ELSE IF ~HasPrefix(Clean(absolutePath), Clean(basePath))
         THEN [err |-> FALSE, path |-> Rel(Clean(basePath), Clean(absolutePath))]
         ELSE [err |-> FALSE,
               path |-> TrimPrefix(TrimPrefix(Clean(absolutePath), Clean(basePath)),
                                   <<Sep>>)]

\* ConvertToRelativePath called on its own, on paths of up to MaxSegs
\* elements (and on a relative one, which it refuses).
MaxSegs == 2
ConvSegments == {<<"w">>, <<"w", "2">>, <<"a">>}
ConvPaths ==
    {<<Sep>> \o JoinSegs(segs) : segs \in SeqsUpTo(ConvSegments, MaxSegs)}
    \cup {<<"a">>}

ConvertCall(basePath, absolutePath) ==
    /\ conv.pc = "off"
    /\ conv' = LET r == ConvertToRelativePath(basePath, absolutePath)
               IN  [pc |-> "done", basePath |-> basePath,
                    absolutePath |-> absolutePath, path |-> r.path, err |-> r.err]
    /\ UNCHANGED <<fsVars, changedFiles, analysisCache, stack, crashed, ops, call,
                   hist, batch, caller, cli, ext>>

ConvInit ==
    /\ dirs = BaseDirs
    /\ noList = {}
    /\ files = [f \in {} |-> GoodFile(<<>>)]
    /\ changedFiles = {}
    /\ analysisCache = EmptyCache
    /\ stack = <<>>
    /\ crashed = FALSE
    /\ ops = NoOps
    /\ call = [arg |-> <<>>, cache |-> EmptyCache, ops |-> NoOps]
    /\ hist = <<>>
    /\ batch = NoBatch
    /\ caller = NewCaller({})
    /\ conv = NoConv
    /\ cli = NoCli
    /\ ext = NoExt

ConvNext ==
    \E basePath \in ConvPaths, absolutePath \in ConvPaths :
        ConvertCall(basePath, absolutePath)

ConvSpec == ConvInit /\ [][ConvNext]_vars

\* AnalyzeRootModules up to its loop: one Analyzer is built for the changed
\* files, and updatedModules is empty.
AnalyzeRootModules(rootModuleDirs, changed, basePath) ==
    /\ batch.pc = "off"
    /\ stack = <<>>
    /\ changedFiles' = NewAnalyzer(changed)
    /\ analysisCache' = EmptyCache
    /\ batch' = [NoBatch EXCEPT !.pc = "loop", !.roots = rootModuleDirs,
                                !.base = basePath, !.i = 1]
    /\ UNCHANGED <<fsVars, callerVars, stack, crashed, ops, call, hist>>

\* The loop calls analyzer.IsModuleUpdated(moduleDir) for the next root.
BatchCall ==
    /\ batch.pc = "loop"
    /\ batch.i <= Len(batch.roots)
    /\ stack' = <<NewFrame(batch.roots[batch.i])>>
    /\ call' = [arg |-> batch.roots[batch.i], cache |-> analysisCache, ops |-> ops]
    /\ batch' = [batch EXCEPT !.pc = "wait"]
    /\ UNCHANGED <<fsVars, callerVars, changedFiles, analysisCache, crashed, ops, hist>>

\* Faulty variants of the two ways the loop body ends: the roots found so
\* far are returned with the error; a root is appended whatever its verdict.
BatchFailedPartial(b) == [b EXCEPT !.pc = "done", !.result = "list", !.err = TRUE]
BatchCollectedAll(b, moduleDir, updated) ==
    LET rel == ConvertToRelativePath(Abs(b.base), Abs(moduleDir))
    IN  IF rel.err THEN [b EXCEPT !.pc = "done", !.result = "nil", !.err = TRUE]
        ELSE [b EXCEPT !.pc = "loop", !.i = @ + 1, !.out = Append(@, rel.path)]

\* The call returned an error: return nil and the error (lines 231-233).
BatchFailed(b) == [b EXCEPT !.pc = "done", !.result = "nil", !.err = TRUE]

\* The call returned a verdict: append the relative path of an updated
\* root, and go on with the next root (lines 235-253).
BatchCollected(b, moduleDir, updated) ==
    IF ~updated THEN [b EXCEPT !.pc = "loop", !.i = @ + 1]
    ELSE LET rel == ConvertToRelativePath(Abs(b.base), Abs(moduleDir))
         IN  IF rel.err THEN [b EXCEPT !.pc = "done", !.result = "nil", !.err = TRUE]
             ELSE [b EXCEPT !.pc = "loop", !.i = @ + 1, !.out = Append(@, rel.path)]

\* The rest of the loop body, once IsModuleUpdated has returned.
BatchCollect ==
    /\ batch.pc = "wait"
    /\ stack = <<>>
    /\ ~crashed
    /\ batch' = IF hist[Len(hist)].err THEN BatchFailed(batch)
                ELSE BatchCollected(batch, batch.roots[batch.i], hist[Len(hist)].val)
    /\ UNCHANGED <<fsVars, callerVars, changedFiles, analysisCache, stack, crashed, ops, call, hist>>

\* The loop is over: return updatedModules (line 256).
BatchReturn ==
    /\ batch.pc = "loop"
    /\ batch.i > Len(batch.roots)
    /\ batch' = [batch EXCEPT !.pc = "done", !.result = "list"]
    /\ UNCHANGED <<fsVars, callerVars, changedFiles, analysisCache, stack, crashed, ops, call, hist>>

\* Before AnalyzeRootModules is called there is a file system and no
\* Analyzer.
BatchInit ==
    \E l \in Layouts :
        /\ dirs = LayoutDirs(l)
        /\ noList = LayoutNoList(l)
        /\ files = LayoutFiles(l)
        /\ changedFiles = {}
        /\ analysisCache = EmptyCache
        /\ stack = <<>>
        /\ crashed = FALSE
        /\ ops = NoOps
        /\ call = [arg |-> <<>>, cache |-> EmptyCache, ops |-> NoOps]
        /\ hist = <<>>
        /\ batch = NoBatch
        /\ caller = NewCaller({})
        /\ conv = NoConv
        /\ cli = NoCli
        /\ ext = NoExt

BatchNext ==
    \/ \E rootModuleDirs \in SeqsUpTo(BatchRoots, MaxRoots),
          changed \in SUBSET ChangedInputs, basePath \in BatchBases :
            AnalyzeRootModules(rootModuleDirs, changed, basePath)
    \/ BatchCall
    \/ BatchCollect
    \/ BatchReturn
    \/ Enter
    \/ Loop
    \/ StackOverflow
    \/ Return

BatchSpec == BatchInit /\ [][BatchNext]_vars

(***************************************************************************)
(* pkg/cli: runAnalysis and what it calls.  The working directory lies in  *)
(* a git repository whose root is RepoRoot; the diff of the two revisions  *)
(* is a set of file names relative to that root.                           *)
(***************************************************************************)
RepoRoot == <<Sep>>
DiffNames == {<<"w", "/", "a", "/">> \o MainTf, <<"w", "/", "c", "/">> \o MainTf}

\* findGitRepositoryRoot
findGitRepositoryRoot == [err |-> FALSE, root |-> RepoRoot]

\* gitpkg.GetChangedFiles: git.PlainOpen succeeds on the root of a
\* repository only; a changed name is joined to the absolute repoPath.
GetChangedFiles(repoPath, diff) ==
    IF Abs(repoPath) # RepoRoot THEN [err |-> TRUE, changed |-> {}]
    ELSE [err |-> FALSE, changed |-> {Clean(Join(Abs(repoPath), name)) : name \in diff}]

\* searchChangedFiles: its gitRepoRootPath is its own variable, the one of
\* runAnalysis is not assigned.
searchChangedFiles(gitRepoRootPath, diff) ==
    LET root == IF gitRepoRootPath = <<>> THEN findGitRepositoryRoot.root
                ELSE gitRepoRootPath
    IN  IF ~StatExists(root) THEN [err |-> TRUE, changed |-> {}]
        ELSE GetChangedFiles(root, diff)

\* containsTerraformFiles
containsTerraformFiles(dir) ==
    IF ReadDirFails(dir) THEN [err |-> TRUE, val |-> FALSE]
    ELSE [err |-> FALSE,
          val |-> \E e \in ReadDir(dir) : ~e.isDir /\ HasSuffix(e.name, TfSuffix)]

\* findRootModules: filepath.WalkDir visits searchDir, then its entries in
\* lexical order; a directory that cannot be read is skipped with a warning.
RECURSIVE findRootModules(_)
RECURSIVE WalkEntries(_, _)
WalkEntries(dir, names) ==
    IF names = <<>> THEN <<>>
    ELSE findRootModules(Join(dir, Head(names))) \o WalkEntries(dir, Tail(names))
findRootModules(searchDir) ==
    IF Abs(searchDir) \notin dirs \/ ReadDirFails(searchDir) THEN <<>>
    ELSE (IF containsTerraformFiles(searchDir).val THEN <<searchDir>> ELSE <<>>)
         \o WalkEntries(searchDir,
                        SortedNames({e.name : e \in {x \in ReadDir(searchDir) : x.isDir}}))

RECURSIVE FoundRootModules(_)
FoundRootModules(rootModuleDirs) ==
    IF rootModuleDirs = <<>> THEN <<>>
    ELSE findRootModules(Head(rootModuleDirs)) \o FoundRootModules(Tail(rootModuleDirs))

\* runAnalysis from its first line to the call of AnalyzeRootModules
\* (lines 99-186): the base path is validated, the changed files are taken
\* from the options or from git, the base path gets its default, and the
\* root modules are searched.
runAnalysis(args, diff) ==
    /\ cli.pc = "off"
    /\ cli' =
         IF ~StatExists(args.basePath)
         THEN [cli EXCEPT !.pc = "done", !.args = args, !.failed = "base-path"]
         ELSE IF args.changedFile # {}
         THEN [cli EXCEPT !.pc = "analyze", !.args = args,
                          !.changed = {Abs(filePath) : filePath \in args.changedFile},
                          !.basePath = IF args.basePath = <<>> THEN Cwd ELSE args.basePath,
                          !.roots = FoundRootModules(args.rootModuleDir)]
         ELSE LET found == searchChangedFiles(args.gitRepoRootPath, diff)
              IN  IF found.err
                  THEN [cli EXCEPT !.pc = "done", !.args = args, !.failed = "git"]
                  ELSE [cli EXCEPT !.pc = "analyze", !.args = args,
                                   !.changed = found.changed,
                                   !.basePath = IF args.basePath = <<>>
                                                THEN args.gitRepoRootPath
                                                ELSE args.basePath,
                                   !.roots = FoundRootModules(args.rootModuleDir)]
    /\ UNCHANGED <<fsVars, changedFiles, analysisCache, stack, crashed, ops, call,
                   hist, batch, caller, conv, ext>>

\* The end of runAnalysis (lines 187-201): the error of AnalyzeRootModules,
\* or its list printed.
CliOutput ==
    /\ cli.pc = "analyze"
    /\ batch.pc = "done"
    /\ cli' = IF batch.err THEN [cli EXCEPT !.pc = "done", !.failed = "analyze"]
              ELSE [cli EXCEPT !.pc = "done", !.out = batch.out]
    /\ UNCHANGED <<fsVars, changedFiles, analysisCache, stack, crashed, ops, call,
                   hist, batch, caller, conv, ext>>

\* The options of a run.
CliBasePaths == {<<>>, Dot, DirB}
CliChangedFiles == SUBSET {<<"a", "/">> \o MainTf, Join(DirC, MainTf)}
CliGitRoots == {<<>>, RepoRoot, Cwd}
CliRootModuleDirs == {<<Dot>>, <<DirB, <<"a">>>>}
CliArgs ==
    {[basePath |-> b, changedFile |-> c, gitRepoRootPath |-> g, rootModuleDir |-> r] :
        b \in CliBasePaths, c \in CliChangedFiles, g \in CliGitRoots,
        r \in CliRootModuleDirs}

\* The file systems in which each declaration file holds at most one module
\* block.
OneRefChoices(d) ==
    {c \in DirChoices(d) : Len(c.tf.srcs) <= 1}
OneRefLayouts ==
    {l \in [ModuleDirs -> UNION {OneRefChoices(d) : d \in ModuleDirs}] :
        \A d \in ModuleDirs : l[d] \in OneRefChoices(d)}

CliInit ==
    \E l \in OneRefLayouts :
        /\ dirs = LayoutDirs(l)
        /\ noList = LayoutNoList(l)
        /\ files = LayoutFiles(l)
        /\ changedFiles = {}
        /\ analysisCache = EmptyCache
        /\ stack = <<>>
        /\ crashed = FALSE
        /\ ops = NoOps
        /\ call = [arg |-> <<>>, cache |-> EmptyCache, ops |-> NoOps]
        /\ hist = <<>>
        /\ batch = NoBatch
        /\ caller = NewCaller({})
        /\ conv = NoConv
        /\ cli = NoCli
        /\ ext = NoExt

CliNext ==
    \/ \E args \in CliArgs, diff \in SUBSET DiffNames :
          /\ args.changedFile # {} => diff = {} /\ args.gitRepoRootPath = <<>>
          /\ runAnalysis(args, diff)
    \/ cli.pc = "analyze" /\ AnalyzeRootModules(cli.roots, cli.changed, cli.basePath)
    \/ CliOutput
    \/ BatchCall
    \/ BatchCollect
    \/ BatchReturn
    \/ Enter
    \/ Loop
    \/ StackOverflow
    \/ Return

CliSpec == CliInit /\ [][CliNext]_vars

(***************************************************************************)
(* The Analyzer with all its operations: IsModuleUpdated, ClearCache and   *)
(* GetAnalysisCache, called one after the other by a caller that may also  *)
(* change the changed-file map it had passed to NewAnalyzer.               *)
(***************************************************************************)
MaxClears == 1
\* Two spellings of DirA, one relative and one absolute with redundant
\* elements, and DirB.
ApiRoots == {<<"a">>, <<"/", "w", "/", "/", "b", "/", ".", ".", "/", ".", "/", "a">>, DirB}
ApiChanged == SUBSET {<<"a", "/">> \o MainTf, Join(DirC, MainTf)}

\* Faulty variant of ClearCache: the changed-file set is reset as well.
ClearedAll(a) == [changedFiles |-> {}, analysisCache |-> EmptyCache]

\* ClearCache (line 190): the Analyzer after it.
Cleared(a) == [changedFiles |-> a.changedFiles, analysisCache |-> EmptyCache]

ClearCache ==
    /\ stack = <<>>
    /\ ~crashed
    /\ caller.clears < MaxClears
    /\ LET a == Cleared([changedFiles |-> changedFiles, analysisCache |-> analysisCache])
       IN  /\ changedFiles' = a.changedFiles
           /\ analysisCache' = a.analysisCache
    /\ caller' = IF caller.ref = "current"
                 THEN [caller EXCEPT !.clears = @ + 1, !.ref = "old", !.old = analysisCache]
                 ELSE [caller EXCEPT !.clears = @ + 1]
    /\ UNCHANGED <<fsVars, stack, crashed, ops, call, hist, batch, conv, cli, ext>>

\* GetAnalysisCache (line 185) returns the Analyzer's map itself.
GetAnalysisCache ==
    /\ stack = <<>>
    /\ ~crashed
    /\ caller.ref # "current"
    /\ caller' = [caller EXCEPT !.ref = "current", !.old = EmptyCache]
    /\ UNCHANGED <<fsVars, changedFiles, analysisCache, stack, crashed, ops, call,
                   hist, batch, conv, cli, ext>>

\* Faulty variant of the copy NewAnalyzer makes: the Analyzer uses the
\* caller's map, and sees what the caller does to it.
SharedWithCaller(own, changed) == NewAnalyzer(changed)

\* The Analyzer's changed-file set after the caller has changed its own
\* map: NewAnalyzer had filled a map of its own (lines 22-30).
AfterCallerChange(own, changed) == own

\* The caller empties the map it had passed to NewAnalyzer.
CallerChangesSet ==
    /\ stack = <<>>
    /\ ~crashed
    /\ caller.files # {}
    /\ caller' = [caller EXCEPT !.files = {}]
    /\ changedFiles' = AfterCallerChange(changedFiles, {})
    /\ UNCHANGED <<fsVars, analysisCache, stack, crashed, ops, call, hist, batch,
                   conv, cli, ext>>

ApiInit == \E l \in OneRefLayouts, changed \in ApiChanged : InitWith(l, changed)

ApiNext ==
    \/ \E moduleDir \in ApiRoots : IsModuleUpdated(moduleDir)
    \/ ClearCache
    \/ GetAnalysisCache
    \/ CallerChangesSet
    \/ Enter
    \/ Loop
    \/ StackOverflow
    \/ Return

ApiSpec == ApiInit /\ [][ApiNext]_vars

(***************************************************************************)
(* The same Analyzer on file systems where DirA has a subdirectory x and   *)
(* a neighbour a2 whose path begins with the path of DirA, each with a     *)
(* file, and changed-file sets that may name those files.                  *)
(***************************************************************************)
SubDir == Join(DirA, <<"x">>)
PrefixDir == DirA \o <<"2">>
NearFiles == {Join(SubDir, MainTf), Join(PrefixDir, MainTf)}
NearChanged == SUBSET (NearFiles \cup {Join(DirA, MainTf), Join(DirB, MainTf)})

RECURSIVE WithFiles(_, _)
WithFiles(fs, S) ==
    IF S = {} THEN fs
    ELSE LET f == CHOOSE g \in S : TRUE
         IN  WithFiles(WithFile(fs, f, GoodFile(<<>>)), S \ {f})

NearLayouts == {l \in OneRefLayouts : l[DirA].st # "absent"}
NearInit ==
    \E l \in NearLayouts, changed \in NearChanged :
        InitOn(LayoutDirs(l) \cup {SubDir, PrefixDir}, LayoutNoList(l),
               WithFiles(LayoutFiles(l), NearFiles), changed)

NearSpec == NearInit /\ [][Next]_vars

(***************************************************************************)
(* The same file systems with changed-file sets that also name paths a     *)
(* diff reports but the working tree does not hold as files: a file that   *)
(* was deleted from DirA or DirB, and the subdirectory x of DirA.          *)
(***************************************************************************)
GonePaths == {Join(DirA, SecondTf), Join(DirB, SecondTf), SubDir}
GoneChanged == SUBSET (GonePaths \cup {Join(DirA, MainTf), Join(DirC, MainTf)})

GoneInit ==
    \E l \in NearLayouts, changed \in GoneChanged :
        InitOn(LayoutDirs(l) \cup {SubDir, PrefixDir}, LayoutNoList(l),
               WithFiles(LayoutFiles(l), NearFiles), changed)

GoneSpec == GoneInit /\ [][Next]_vars


(***************************************************************************)
(* The module reference graph, read off the file system, and the           *)
(* reference recursion the verdicts are compared with.                     *)
(***************************************************************************)
\* The directory (or file) d is there.
Exists(d) == d \in dirs \cup DOMAIN files

\* A file immediately inside d is in the changed-file set.
DirectlyChanged(d) == \E f \in DOMAIN files : Dir(f) = d /\ f \in changedFiles

\* The extractor succeeds on d.
ExtractOk(d) == ~FindChildModules(d).err

\* The children the extractor returns for d (none when it fails).
ChildrenOf(d) ==
    LET r == FindChildModules(d)
    IN  IF r.err THEN {} ELSE {r.children[i] : i \in DOMAIN r.children}

NodeCount == Cardinality(KeyUniverse)

\* The module reference graph: the pairs <<d, c>>, c a child of d.
Graph == UNION {{<<d, c>> : c \in ChildrenOf(d)} : d \in KeyUniverse}
Succ(g, d) == {e[2] : e \in {x \in g : x[1] = d}}

RECURSIVE ReachN(_, _, _)
ReachN(g, S, n) ==
    IF n = 0 THEN S ELSE ReachN(g, S \cup UNION {Succ(g, d) : d \in S}, n - 1)

\* In graph g: d and every module d references, directly or through a chain.
ReachIn(g, d) == ReachN(g, {d}, NodeCount)
\* In graph g: no reference cycle can be reached from d.
AcyclicIn(g, d) == \A x \in ReachIn(g, d) : x \notin ReachN(g, Succ(g, x), NodeCount)

\* In graph g: no listing fails in d or in a module d references.
ListableIn(g, d) == \A x \in ReachIn(g, d) : Exists(x) => ~ReadDirFails(x)

ReachFrom(d) == ReachIn(Graph, d)
AcyclicFrom(d) == AcyclicIn(Graph, d)
ListableFrom(d) == ListableIn(Graph, d)

\* affected(M) = exists(M) AND (M has a directly changed file OR (extraction
\* of M succeeds AND some child c has affected(c))), unfolded n times.
RECURSIVE affected(_, _, _)
affected(g, d, n) ==
    /\ n > 0
    /\ Exists(d)
    /\ \/ DirectlyChanged(d)
       \/ \E c \in Succ(g, d) : ExtractOk(d) /\ affected(g, c, n - 1)
Affected(d) == affected(Graph, d, NodeCount + 1)

\* The activation that has just returned, if there is one.
JustReturned == stack # <<>> /\ Top.pc = "ret"
ReturnedKey == CacheKey(Top.dir)

(***************************************************************************)
(* C1  On a finite acyclic module reference graph on which no listing      *)
(* fails, every activation of IsModuleUpdated(M), whatever the cache held  *)
(* when it began, returns without error the value of the reference         *)
(* recursion affected(M), and the recursion never runs out of stack.       *)
(***************************************************************************)
C1_ReferenceRecursion ==
    LET g == Graph
    IN  /\ JustReturned /\ AcyclicIn(g, ReturnedKey) /\ ListableIn(g, ReturnedKey)
               => ~Top.err /\ Top.val = affected(g, ReturnedKey, NodeCount + 1)
        /\ crashed => ~AcyclicIn(g, CacheKey(stack[1].dir))

\* A second top-level call, begun with verdicts already cached, returns
\* true for a module that is affected only through a child it iterated to.
C1_Witness ==
    /\ JustReturned /\ Len(stack) = 1 /\ Len(hist) = 1
    /\ AcyclicFrom(ReturnedKey) /\ ListableFrom(ReturnedKey)
    /\ DOMAIN call.cache # {}
    /\ ~DirectlyChanged(ReturnedKey)
    /\ Top.i = 2
    /\ Top.val /\ ~Top.err


(***************************************************************************)
(* C2  Transitive propagation.  As claimed (M exists and references a      *)
(* locally resolvable child C that has a directly changed file, so         *)
(* IsModuleUpdated(M) returns true whatever else M declares, in whatever   *)
(* order) the statement fails: a child declared before C whose listing     *)
(* fails makes the call return that error.                                 *)
(***************************************************************************)
HasChangedChild(d) == Exists(d) /\ \E c \in ChildrenOf(d) : DirectlyChanged(c)

C3_Original ==
    JustReturned /\ Exists(ReturnedKey) /\ DirectlyChanged(ReturnedKey)
        => Top.val /\ ~Top.err

\* C3 as amended: true without error when the listing of M succeeds
\* (whatever M's declarations are), the listing error when it fails.
C3_DirectChange ==
    JustReturned /\ Exists(ReturnedKey) /\ DirectlyChanged(ReturnedKey)
        => IF ReadDirFails(ReturnedKey) THEN Top.err ELSE Top.val /\ ~Top.err

\* A module with a changed file and declarations that cannot be extracted
\* is analyzed (no cache hit) and returns true.
C3_Witness ==
    /\ JustReturned /\ Exists(ReturnedKey) /\ DirectlyChanged(ReturnedKey)
    /\ ~ExtractOk(ReturnedKey) /\ ~ReadDirFails(ReturnedKey)
    /\ ~IsAbs(Top.dir)
    /\ ops.list[ReturnedKey] = 1
    /\ Top.val /\ ~Top.err

(***************************************************************************)
(* C4  Memoization.  As claimed (each distinct canonical module directory  *)
(* is analyzed at most once in the lifetime of an Analyzer) the statement  *)
(* fails: an analysis that ends in an error records nothing, and the next  *)
(* call that reaches the directory analyzes it again.                      *)
(***************************************************************************)
C4_Original ==
    \A d \in KeyUniverse :
        ops.stat[d] <= 1 /\ ops.list[d] <= 1 /\ ops.extract[d] <= 1

InCache(d) == IF d \in DOMAIN analysisCache THEN 1 ELSE 0
\* The activations that are in the middle of analysing d.
InFlight(d) ==
    Cardinality({j \in 1..Len(stack) :
                    CacheKey(stack[j].dir) = d /\ stack[j].pc \in {"loop", "wait"}})

\* C4 as amended: every analysis of a directory is still running, or ended
\* in an error, or is the only one that recorded the directory's verdict;
\* so a directory is analyzed to a verdict at most once, and never again
\* once it has one.
C4_Memoization ==
    \A d \in KeyUniverse :
        /\ ops.stat[d] = InCache(d) + ops.fail[d] + InFlight(d)
        /\ ops.list[d] <= ops.stat[d]
        /\ ops.extract[d] <= ops.list[d]

\* DirC is a child of DirA and of DirB, both were queried and both walked
\* to it, and it was analyzed once.
C4_Witness ==
    /\ stack = <<>> /\ Len(hist) = 2
    /\ CacheKey(hist[1].arg) = DirA /\ hist[2].arg = DirB
    /\ DirC \in ChildrenOf(DirA) /\ DirC \in ChildrenOf(DirB)
    /\ ops.extract[DirA] = 1 /\ ops.extract[DirB] = 1
    /\ ops.stat[DirC] = 1 /\ ops.list[DirC] = 1
    /\ analysisCache[DirC]

(***************************************************************************)
(* C5  Idempotence.  As claimed (two consecutive IsModuleUpdated(m) calls  *)
(* return the same result and the second is a pure cache hit) the          *)
(* statement fails when the first call returns an error: nothing is cached *)
(* for m and the second call analyzes m again.                             *)
(***************************************************************************)
TwoCallsOnSame ==
    /\ stack = <<>>
    /\ Len(hist) >= 2
    /\ hist[Len(hist)].arg = hist[Len(hist) - 1].arg
PureCacheHit == analysisCache = call.cache /\ ops = call.ops

C5_Original ==
    TwoCallsOnSame => /\ hist[Len(hist)] = hist[Len(hist) - 1]
                      /\ PureCacheHit

\* C5 as amended: when the first call returns a verdict the second returns
\* the same verdict and is a pure cache hit; when the first returns an
\* error the second returns an error again, after analysing m again.
C5_Idempotence ==
    TwoCallsOnSame =>
        LET first == hist[Len(hist) - 1]
            second == hist[Len(hist)]
            key == CacheKey(second.arg)
        IN  IF first.err
            THEN second.err /\ ops.stat[key] = call.ops.stat[key] + 1
            ELSE second = first /\ PureCacheHit

\* The first call walked the children of m and returned true.
C5_Witness ==
    /\ TwoCallsOnSame
    /\ ~hist[1].err /\ hist[1].val
    /\ ops.extract[CacheKey(hist[1].arg)] = 1
    /\ PureCacheHit

ExtractionFails(d) ==
    Exists(d) /\ ~ReadDirFails(d) /\ ~DirectlyChanged(d) /\ ~ExtractOk(d)

C7_FailOpen ==
    JustReturned /\ ExtractionFails(ReturnedKey)
        => /\ ~Top.val /\ ~Top.err
           /\ ReturnedKey \in DOMAIN analysisCache
           /\ ~analysisCache[ReturnedKey]
           /\ Top.children = <<>> /\ Top.i = 0

\* The unparsable file of M holds a module block whose source is a changed
\* module; M has just been analyzed as a child of another module.
C7_Witness ==
    /\ JustReturned /\ ExtractionFails(ReturnedKey)
    /\ Len(stack) = 2
    /\ ops.extract[ReturnedKey] = 1
    /\ \E f \in DOMAIN files :
           /\ Dir(f) = ReturnedKey
           /\ files[f].srcs # <<>>
           /\ DirectlyChanged(resolveModulePath(ReturnedKey, files[f].srcs[1]))

(***************************************************************************)
(* C8  Fail-closed on file system errors: when the listing of an existing  *)
(* directory D fails, IsModuleUpdated(D) returns an error, and so does     *)
(* every enclosing call that reached D through a child reference, up to    *)
(* the caller of the outermost one.                                        *)
(***************************************************************************)
C8_FailClosed ==
    /\ [](JustReturned /\ Exists(ReturnedKey) /\ ReadDirFails(ReturnedKey) => Top.err)
    /\ [][JustReturned /\ Top.err =>
            IF Len(stack) = 1
            THEN hist' = Append(hist, [arg |-> call.arg, val |-> FALSE, err |-> TRUE])
            ELSE /\ Len(stack') = Len(stack) - 1
                 /\ stack'[Len(stack')].pc = "ret"
                 /\ stack'[Len(stack')].err
                 /\ analysisCache' = analysisCache]_<<stack, hist>>

\* The outermost call returns an error that comes from a grandchild.
C8_Witness ==
    /\ JustReturned /\ Len(stack) = 1 /\ Top.err
    /\ noList # {}
    /\ noList \cap ({ReturnedKey} \cup ChildrenOf(ReturnedKey)) = {}


(***************************************************************************)
(* C9  All-or-nothing batch: when the analysis of a root returns an error, *)
(* AnalyzeRootModules returns that error and no list at all, and no root   *)
(* after the failing one is analyzed.                                      *)
(***************************************************************************)
C9_AllOrNothing ==
    /\ \A j \in 1..Len(hist) :
           hist[j].err => /\ j = Len(hist)
                          /\ stack = <<>>
                          /\ batch.i = j
                          /\ batch.pc \in {"wait", "done"}
    /\ batch.pc = "done" /\ hist # <<>> /\ hist[Len(hist)].err
           => batch.err /\ batch.result = "nil"
    /\ batch.pc = "done" /\ batch.err
           => hist # <<>> /\ hist[Len(hist)].err

\* The first of two roots is updated, the second fails: the batch has
\* returned the error and nothing of what it had collected.
C9_Witness ==
    /\ batch.pc = "done" /\ batch.err /\ batch.result = "nil"
    /\ Len(batch.roots) = 2 /\ batch.i = 2
    /\ batch.out # <<>>

(***************************************************************************)
(* C10  Batch result: when no error occurs AnalyzeRootModules returns one  *)
(* entry for each input root whose IsModuleUpdated verdict is true and     *)
(* none for the others, in the order of rootModuleDirs, with one Analyzer  *)
(* (one cache) for the whole batch; every entry is a non-absolute path.    *)
(***************************************************************************)
RECURSIVE EntriesUpTo(_)
EntriesUpTo(j) ==
    IF j = 0 THEN <<>>
    ELSE IF hist[j].val
         THEN Append(EntriesUpTo(j - 1),
                     ConvertToRelativePath(Abs(batch.base), Abs(batch.roots[j])).path)
         ELSE EntriesUpTo(j - 1)

C10_BatchResult ==
    batch.pc = "done" /\ ~batch.err
        => /\ batch.result = "list"
           /\ Len(hist) = Len(batch.roots)
           /\ \A j \in 1..Len(hist) : hist[j].arg = batch.roots[j] /\ ~hist[j].err
           /\ batch.out = EntriesUpTo(Len(hist))
           /\ \A j \in 1..Len(batch.out) : ~IsAbs(batch.out[j])
           /\ \A d \in KeyUniverse : ops.stat[d] <= 1

\* Two different roots are both updated, and the verdict of the second
\* comes from the cache that the call on the first has filled.
C10_Witness ==
    /\ batch.pc = "done" /\ ~batch.err
    /\ Len(batch.roots) = 2 /\ batch.roots[1] # batch.roots[2]
    /\ hist[1].val /\ hist[2].val
    /\ Len(batch.out) = 2 /\ batch.out[1] # batch.out[2]
    /\ ops = call.ops


(***************************************************************************)
(* C11  Non-propagation across remote or absolute sources.  As claimed (a  *)
(* module with no directly changed file whose only references are remote   *)
(* or absolute sources yields false) the statement fails when the listing  *)
(* of the module fails: the call returns the listing error.                *)
(***************************************************************************)
\* The sources the declaration files of d hold.
DeclaredSources(d) ==
    UNION {{files[f].srcs[j] : j \in 1..Len(files[f].srcs)} :
              f \in {x \in DOMAIN files : Dir(x) = d}}
IsRemote(source) == \E j \in 1..Len(source) : source[j] = ":"
OnlyRemoteOrAbsolute(d) ==
    /\ Exists(d)
    /\ ~DirectlyChanged(d)
    /\ DeclaredSources(d) # {}
    /\ \A source \in DeclaredSources(d) : IsAbs(source) \/ IsRemote(source)

C11_Original ==
    JustReturned /\ OnlyRemoteOrAbsolute(ReturnedKey) => ~Top.val /\ ~Top.err

\* C11 as amended: such a module, when its listing succeeds, yields false
\* without error, false is recorded for it and it has no child to visit,
\* even when the target named by the source is a local module with a
\* changed file; when its listing fails the call returns the listing error.
C11_NoRemotePropagation ==
    JustReturned /\ OnlyRemoteOrAbsolute(ReturnedKey)
        => IF ReadDirFails(ReturnedKey) THEN Top.err
           ELSE /\ ~Top.val /\ ~Top.err
                /\ ReturnedKey \in DOMAIN analysisCache
                /\ ~analysisCache[ReturnedKey]
                /\ Top.children = <<>>

\* DirA declares the absolute path and the remote address of DirC, DirC
\* has a changed file, and DirA has just been analyzed.
C11_Witness ==
    /\ JustReturned /\ OnlyRemoteOrAbsolute(ReturnedKey)
    /\ DeclaredSources(ReturnedKey) = {SrcAbs, SrcRemote}
    /\ DirectlyChanged(DirC)
    /\ ops.extract[ReturnedKey] = 1
    /\ ~Top.val /\ ~Top.err


(***************************************************************************)
(* C12  ConvertToRelativePath computes a true relative location: for       *)
(* absolute, lexically clean basePath and path, joining basePath with the  *)
(* result and cleaning yields path; a path that only shares a string       *)
(* prefix with basePath (base /w, path /w2/a) is expressed with an         *)
(* ascending element.  The code fails this: strings.HasPrefix takes /w2/a  *)
(* to lie under /w and the result is "2/a".                                *)
(***************************************************************************)
C12_RoundTrip ==
    /\ conv.pc = "done"
    /\ IsAbs(conv.basePath) /\ Clean(conv.basePath) = conv.basePath
    /\ IsAbs(conv.absolutePath) /\ Clean(conv.absolutePath) = conv.absolutePath
    => /\ ~conv.err
       /\ Clean(Join(conv.basePath, conv.path)) = conv.absolutePath


(***************************************************************************)
(* C13  CLI default base path with explicit files: a run with at least one *)
(* changed-file option and no base-path option does not fail for lack of a *)
(* base path; the working directory is the base path and the list is       *)
(* emitted relative to it.  The code fails this: runAnalysis checks        *)
(* os.Stat(basePath) on the empty option before it applies the default.    *)
(***************************************************************************)
RunOver == cli.pc \in {"analyze", "done"}
ExplicitFiles == cli.args.changedFile # {}
NoBasePathOption == cli.args.basePath = <<>>

C13_DefaultBasePathFiles ==
    RunOver /\ ExplicitFiles /\ NoBasePathOption
        => /\ cli.failed # "base-path"
           /\ cli.basePath = Cwd

(***************************************************************************)
(* C14  CLI default base path in revision mode: a run with revision        *)
(* references and no base-path option relativizes its output against the   *)
(* repository root used for the diff, also when that root was detected and *)
(* not given as an option.  The code fails this: the run ends at the       *)
(* os.Stat of the empty base path, and the default it would apply is the   *)
(* option's value, which is empty when the root was detected.              *)
(***************************************************************************)
\* The repository root searchChangedFiles hands to GetChangedFiles.
DiffRoot ==
    IF cli.args.gitRepoRootPath = <<>> THEN findGitRepositoryRoot.root
    ELSE Abs(cli.args.gitRepoRootPath)

C14_DefaultBasePathRevisions ==
    RunOver /\ ~ExplicitFiles /\ NoBasePathOption /\ cli.failed # "git"
        => /\ cli.failed # "base-path"
           /\ Abs(cli.basePath) = DiffRoot


\* One Analyzer queried under several spellings of its module directories,
\* and never cleared.
SpellingNext ==
    \/ \E moduleDir \in ApiRoots : IsModuleUpdated(moduleDir)
    \/ Enter
    \/ Loop
    \/ StackOverflow
    \/ Return

SpellingSpec == ApiInit /\ [][SpellingNext]_vars

(***************************************************************************)
(* C15  Write-once cache.  As claimed (under any sequence of               *)
(* IsModuleUpdated, ClearCache and GetAnalysisCache operations the verdict *)
(* of each canonical module path is written exactly once and never         *)
(* invalidated) the statement fails: ClearCache removes every entry, and   *)
(* the next query writes the verdict again.                                *)
(***************************************************************************)
C15_Original ==
    \A k \in KeyUniverse :
        /\ ops.write[k] <= 1
        /\ ops.write[k] = 1 => k \in DOMAIN analysisCache

\* The entries of the cache are kept, each with its value.
EntriesKept ==
    \A k \in DOMAIN analysisCache :
        k \in DOMAIN analysisCache' /\ analysisCache'[k] = analysisCache[k]

\* C15 as amended: a verdict is only ever written under a key that has no
\* entry, so between two ClearCache operations each path is written at most
\* once; no operation but ClearCache removes or changes an entry, and
\* ClearCache removes them all.
C15_WriteOnce ==
    /\ [][\A k \in KeyUniverse :
            ops'.write[k] # ops.write[k]
                => /\ k \notin DOMAIN analysisCache
                   /\ analysisCache' = setAnalysisCache(k, analysisCache'[k])]_vars
    /\ [][IF caller'.clears = caller.clears THEN EntriesKept
          ELSE analysisCache' = EmptyCache]_vars
    /\ [](\A k \in KeyUniverse : ops.write[k] <= caller.clears + 1)

\* A verdict was written, removed by ClearCache, and written again.
C15_Witness ==
    /\ stack = <<>>
    /\ caller.clears = 1
    /\ \E k \in DOMAIN analysisCache : ops.write[k] = 2 /\ analysisCache[k]


(***************************************************************************)
(* C16  Monotone cache growth.  Across every step of any IsModuleUpdated   *)
(* call, calls that end in an error included, the set of cache keys never  *)
(* shrinks and the value stored under a key never changes.                 *)
(***************************************************************************)
C16_MonotoneCache == [][EntriesKept]_vars

\* A call has ended in an error after a verdict was written during it: the
\* entry is still in the cache.
C16_Witness ==
    /\ JustReturned
    /\ Len(stack) = 1
    /\ Top.err
    /\ \E k \in DOMAIN analysisCache : k \notin DOMAIN call.cache


(***************************************************************************)
(* C17  Canonical cache keys: every key written to the cache is an         *)
(* absolute, lexically cleaned path, so two spellings of one directory     *)
(* (relative or absolute, with redundant ".", ".." or separators) read and *)
(* write the same single entry, and the directory is analyzed once for     *)
(* both.                                                                   *)
(***************************************************************************)
\* The last two calls named one directory in two spellings, and the first
\* of them recorded a verdict.
TwoSpellings ==
    /\ stack = <<>>
    /\ Len(hist) = 2
    /\ hist[1].arg # hist[2].arg
    /\ CacheKey(hist[1].arg) = CacheKey(hist[2].arg)
    /\ ~hist[1].err

C17_CanonicalKeys ==
    /\ \A k \in DOMAIN analysisCache : IsAbs(k) /\ Clean(k) = k
    /\ \A k \in KeyUniverse : ops.write[k] <= 1
    /\ TwoSpellings =>
        LET key == CacheKey(hist[2].arg)
        IN  /\ hist[2].val = hist[1].val /\ ~hist[2].err
            /\ PureCacheHit
            /\ key \in DOMAIN analysisCache /\ analysisCache[key] = hist[2].val
            /\ ops.write[key] = 1
            /\ ops.stat[key] = 1 /\ ops.list[key] <= 1 /\ ops.extract[key] <= 1

\* DirA was queried as "a" and as "/w//b/.././a" (in either order); its
\* children were walked once.
C17_Witness ==
    /\ TwoSpellings
    /\ {hist[1].arg, hist[2].arg} \cap {DirA, DirB} = {}
    /\ ops.extract[DirA] = 1
    /\ DOMAIN analysisCache \cap {DirB, DirC} # {}


(***************************************************************************)
(* C18  ClearCache leaves the cache empty and changes nothing else of the  *)
(* Analyzer or of the world it reads, so every query made after it returns *)
(* the verdict (or the error) it returned before it.                       *)
(***************************************************************************)
C18_ClearCache ==
    /\ [][caller'.clears # caller.clears
            => /\ analysisCache' = EmptyCache
               /\ changedFiles' = changedFiles
               /\ UNCHANGED <<fsVars, stack, crashed, hist>>]_vars
    /\ [](\A i, j \in 1..Len(hist) :
            CacheKey(hist[i].arg) = CacheKey(hist[j].arg)
                => hist[i].val = hist[j].val /\ hist[i].err = hist[j].err)

\* A directory with a changed file below it was queried, the cache was
\* cleared, and the second query analyzed the directory again and returned
\* true again.
C18_Witness ==
    /\ stack = <<>>
    /\ caller.clears = 1
    /\ Len(hist) = 2
    /\ CacheKey(hist[1].arg) = CacheKey(hist[2].arg)
    /\ hist[1].val /\ hist[2].val
    /\ ops.extract[CacheKey(hist[2].arg)] = 2


(***************************************************************************)
(* C19  The changed-file set is immutable after construction: NewAnalyzer  *)
(* stores its own copy, made absolute, of the set it is given; no          *)
(* operation adds to it or removes from it; and a later change the caller  *)
(* makes to the original set alters no verdict.                            *)
(***************************************************************************)
\* Whether the set given at construction names a file immediately inside d.
GivenChangeIn(d) ==
    \E f \in DOMAIN files : Dir(f) = d /\ f \in {Abs(g) : g \in caller.given}

C19_ChangedFilesImmutable ==
    /\ changedFiles = {Abs(g) : g \in caller.given}
    /\ \A f \in changedFiles : IsAbs(f)
    /\ JustReturned /\ Exists(ReturnedKey) /\ ~ReadDirFails(ReturnedKey)
            /\ GivenChangeIn(ReturnedKey)
        => Top.val /\ ~Top.err

\* The caller emptied its set before the first query; the query still finds
\* the directory changed by a file of the set given at construction.
C19_Witness ==
    /\ JustReturned
    /\ Len(stack) = 1
    /\ hist = <<>>
    /\ caller.given # {}
    /\ caller.files = {}
    /\ GivenChangeIn(ReturnedKey)
    /\ Top.val


(***************************************************************************)
(* C20  Ordered short-circuit: the children of a module are visited in the *)
(* order the extractor lists them; at the first child that returns true    *)
(* the parent is recorded as true and returns, and no later child is       *)
(* visited in this call, so a later child that was not visited before has  *)
(* no cache entry afterwards.                                              *)
(***************************************************************************)
ChildKey(f, j) == CacheKey(f.children[j])

\* The children before index n of activation f were visited and are all
\* recorded as not updated.
EarlierChildrenFalse(f, n) ==
    \A j \in 1..(n - 1) :
        j <= Len(f.children) =>
            /\ ChildKey(f, j) \in DOMAIN analysisCache
            /\ ~analysisCache[ChildKey(f, j)]

\* Every activation is at the child its index names, with all children
\* before it done.
VisitedInOrder ==
    \A n \in 1..Len(stack) :
        LET f == stack[n]
        IN  /\ f.pc = "loop" => EarlierChildrenFalse(f, f.i)
            /\ f.pc = "wait" =>
                /\ f.i \in 1..Len(f.children)
                /\ n < Len(stack)
                /\ stack[n + 1].dir = Clean(f.children[f.i])
                /\ EarlierChildrenFalse(f, f.i)

\* A child returns true to its parent: the parent records true and returns.
FirstTrueChildEndsLoop ==
    (Len(stack) >= 2 /\ Top.pc = "ret" /\ Top.val /\ ~Top.err /\ stack' # stack)
        => LET parent == stack[Len(stack) - 1]
               key == CacheKey(parent.dir)
           IN  /\ stack' = Append(SubSeq(stack, 1, Len(stack) - 2),
                                  Returned(parent, TRUE, FALSE))
               /\ DOMAIN analysisCache' = DOMAIN analysisCache \cup {key}
               /\ analysisCache'[key]
               /\ EntriesKept

\* The outermost call has returned true because of child number Top.i: the
\* children before it are recorded false, it is recorded true, and a later
\* child that had no entry when the call began, and is not below a child
\* that was visited, was not touched and has no entry.
LaterChildrenNotVisited ==
    (JustReturned /\ Len(stack) = 1 /\ Top.val /\ Top.i >= 1)
        => /\ Top.i <= Len(Top.children)
           /\ EarlierChildrenFalse(Top, Top.i)
           /\ analysisCache[ChildKey(Top, Top.i)]
           /\ analysisCache[ReturnedKey]
           /\ \A j \in (Top.i + 1)..Len(Top.children) :
                LET k == ChildKey(Top, j)
                IN  (/\ k \notin DOMAIN call.cache
                     /\ \A v \in 1..Top.i : k \notin ReachFrom(ChildKey(Top, v)))
                    => /\ k \notin DOMAIN analysisCache
                       /\ \A kind \in OpKinds : ops[kind][k] = call.ops[kind][k]

C20_OrderedShortCircuit ==
    /\ [](VisitedInOrder /\ LaterChildrenNotVisited)
    /\ [][FirstTrueChildEndsLoop]_vars

\* The first of two children returned true; the second, an existing module,
\* has no entry.
C20_Witness ==
    /\ JustReturned /\ Len(stack) = 1 /\ Top.val
    /\ Top.i = 1 /\ Len(Top.children) = 2
    /\ ChildKey(Top, 2) # ChildKey(Top, 1)
    /\ Exists(ChildKey(Top, 2))
    /\ ChildKey(Top, 2) \notin DOMAIN analysisCache


(***************************************************************************)
(* C21  Cache-write discipline: whenever IsModuleUpdated(M) returns a      *)
(* verdict v without error (missing directory, direct change, extraction   *)
(* failure, affected child, no affected child), the cache maps the         *)
(* canonical path of M to v at the moment of return.                       *)
(***************************************************************************)
C21_CacheWriteDiscipline ==
    \A n \in 1..Len(stack) :
        (stack[n].pc = "ret" /\ ~stack[n].err)
            => /\ CacheKey(stack[n].dir) \in DOMAIN analysisCache
               /\ analysisCache[CacheKey(stack[n].dir)] = stack[n].val

\* A module that was not in the cache has walked its children, found none
\* affected, and returns false, which it has just written.
C21_Witness ==
    /\ JustReturned /\ ~Top.err /\ ~Top.val
    /\ Top.children # <<>>
    /\ Top.i = Len(Top.children) + 1
    /\ ReturnedKey \notin DOMAIN call.cache
    /\ ~analysisCache[ReturnedKey]


(***************************************************************************)
(* C22  Termination: on a finite acyclic module reference graph every      *)
(* IsModuleUpdated call eventually returns (a verdict or an error); its    *)
(* recursion depth never exceeds the length of the longest reference chain *)
(* from the queried module, and the number of modules it analyzes never    *)
(* exceeds the number of distinct modules reachable from the queried one.  *)
(***************************************************************************)
\* The length, in references, of the longest chain that starts at d (of the
\* chains of at most n references).
RECURSIVE ChainLength(_, _)
ChainLength(d, n) ==
    IF n = 0 \/ Succ(Graph, d) = {} THEN 0
    ELSE LET below == {ChainLength(c, n - 1) : c \in Succ(Graph, d)}
         IN  1 + CHOOSE m \in below : \A x \in below : x <= m

RECURSIVE SumOver(_, _)
SumOver(S, f) ==
    IF S = {} THEN 0
    ELSE LET x == CHOOSE y \in S : TRUE
         IN  f[x] + SumOver(S \ {x}, f)

\* The module the running call was asked about, and the number of analyses
\* (activations that found no cache entry) begun since the call began.
CallKey == CacheKey(call.arg)
AnalyzedInCall ==
    SumOver(KeyUniverse, [k \in KeyUniverse |-> ops.stat[k] - call.ops.stat[k]])

\* The recursive calls below the outermost activation.
RecursionDepth == Len(stack) - 1

C22_Termination ==
    /\ []((stack # <<>> /\ AcyclicFrom(CallKey))
            => /\ ~crashed
               /\ RecursionDepth <= ChainLength(CallKey, NodeCount)
               /\ AnalyzedInCall <= Cardinality(ReachFrom(CallKey)))
    /\ (stack # <<>> /\ AcyclicFrom(CallKey)) ~> (stack = <<>>)

\* A call on a chain of three modules is at its deepest, with all three
\* modules analyzed.
C22_Witness ==
    /\ stack # <<>>
    /\ AcyclicFrom(CallKey)
    /\ ChainLength(CallKey, NodeCount) = 2
    /\ RecursionDepth = 2
    /\ AnalyzedInCall = 3


(***************************************************************************)
(* C23  Cyclic references: when modules A and B reference each other,      *)
(* neither has a directly changed file, and the traversal re-enters the    *)
(* still unfinished module before an affected child is found, the call     *)
(* never returns: it recurses without bound (until the stack of the        *)
(* process is used up) and never writes a cache entry for A or B.          *)
(***************************************************************************)
\* The traversal has entered a module whose analysis is still under way.
ReEntered ==
    \E m, n \in 1..Len(stack) :
        m < n /\ CacheKey(stack[m].dir) = CacheKey(stack[n].dir)

\* The modules of the activations from the first one that is entered again.
OnCycle ==
    {CacheKey(stack[n].dir) : n \in
        {x \in 1..Len(stack) : \E m \in 1..x, y \in 1..Len(stack) :
            m < y /\ CacheKey(stack[m].dir) = CacheKey(stack[y].dir)}}

\* No activation from the one that is entered again down to the one that
\* enters it again has returned (and only an activation that has returned
\* leaves the stack).
CycleStaysOpen ==
    \A m, n \in 1..Len(stack) :
        (m < n /\ CacheKey(stack[m].dir) = CacheKey(stack[n].dir))
            => \A x \in m..n : stack[x].pc # "ret"

C23_CyclicReferences ==
    /\ [](ReEntered =>
            /\ CycleStaysOpen
            /\ {DirA, DirB} \subseteq OnCycle
            /\ DirB \in ChildrenOf(DirA) /\ DirA \in ChildrenOf(DirB)
            /\ ~DirectlyChanged(DirA) /\ ~DirectlyChanged(DirB)
            /\ DirA \notin DOMAIN analysisCache
            /\ DirB \notin DOMAIN analysisCache)
    /\ [][ReEntered => hist' = hist /\ stack' # <<>>]_vars
    /\ ReEntered ~> crashed

\* The recursion between A and B has used up the stack.
C23_Witness ==
    /\ crashed
    /\ Len(stack) = MaxDepth
    /\ \A n \in 1..Len(stack) - 1 :
        {CacheKey(stack[n].dir), CacheKey(stack[n + 1].dir)} = {DirA, DirB}
    /\ DOMAIN analysisCache \cap {DirA, DirB} = {}


(***************************************************************************)
(* C24  Extraction is all-or-nothing per module: if any one declaration    *)
(* file of a module fails to parse, FindChildModules returns an error and  *)
(* no children at all, the references of the module's other, well-formed   *)
(* files included; IsModuleUpdated then treats the module as having zero   *)
(* children.                                                               *)
(***************************************************************************)
DeclarationFiles(d) ==
    {f \in DOMAIN files : Dir(f) = d /\ HasSuffix(Base(f), TfSuffix)}
SomeFileUnparsable(d) ==
    /\ Exists(d) /\ ~ReadDirFails(d)
    /\ \E f \in DeclarationFiles(d) : ~files[f].ok

C24_AllOrNothingExtraction ==
    /\ \A d \in ModuleDirs :
        SomeFileUnparsable(d)
            => FindChildModules(d) = [err |-> TRUE, children |-> <<>>]
    /\ (JustReturned /\ SomeFileUnparsable(ReturnedKey)
            /\ ~DirectlyChanged(ReturnedKey))
        => /\ ~Top.val /\ ~Top.err
           /\ Top.children = <<>> /\ Top.i = 0
           /\ ReturnedKey \in DOMAIN analysisCache
           /\ ~analysisCache[ReturnedKey]

\* m.tf of DirA parses and refers to DirC, which has a changed file; x.tf of
\* DirA does not parse.  DirA has been analyzed: not updated, and DirC was
\* never looked at.
C24_Witness ==
    /\ JustReturned /\ ReturnedKey = DirA /\ Len(stack) = 1
    /\ files[Join(DirA, MainTf)] = GoodFile(<<SrcC>>)
    /\ ~files[Join(DirA, SecondTf)].ok
    /\ DirectlyChanged(DirC) /\ ~ReadDirFails(DirC)
    /\ ~DirectlyChanged(DirA)
    /\ ops.extract[DirA] = 1
    /\ ops.stat[DirC] = 0
    /\ ~Top.val /\ ~Top.err


(***************************************************************************)
(* C25  Extractor resolution: for every module directory and every list of *)
(* literal source strings, FindChildModules returns, in declaration order  *)
(* and with duplicates preserved, exactly the cleaned join of the module   *)
(* directory with each source that is not an absolute path and whose       *)
(* joined path exists; every other source contributes nothing and raises   *)
(* no error.                                                               *)
(***************************************************************************)
RECURSIVE ExpectedChildren(_, _)
ExpectedChildren(moduleDir, sources) ==
    IF sources = <<>> THEN <<>>
    ELSE LET source == Head(sources)
             joined == Join(moduleDir, source)
             rest == ExpectedChildren(moduleDir, Tail(sources))
         IN  IF ~IsAbs(source) /\ joined # <<>> /\ Exists(Abs(joined))
             THEN <<Clean(joined)>> \o rest
             ELSE rest

C25_ExtractorResolution ==
    ext.pc = "done"
        => /\ ~ext.err
           /\ ext.children =
                ExpectedChildren(ext.moduleDir,
                                 files[Join(Abs(ext.moduleDir), MainTf)].srcs)

\* The same, for lists in which no source lies below a file.
C25_ResolutionOfPlainSources ==
    (ext.pc = "done"
        /\ \A j \in DOMAIN files[Join(Abs(ext.moduleDir), MainTf)].srcs :
              ~BelowFile(Join(ext.moduleDir, files[Join(Abs(ext.moduleDir), MainTf)].srcs[j])))
        => /\ ~ext.err
           /\ ext.children =
                ExpectedChildren(ext.moduleDir,
                                 files[Join(Abs(ext.moduleDir), MainTf)].srcs)


(***************************************************************************)
(* C26  Direct-change detection is non-recursive and exact: a changed file *)
(* in a subdirectory of M, in a sibling directory, or at a path of which   *)
(* M's path is only a prefix is no direct change of M; M is then affected  *)
(* only if a referenced child module is affected.                          *)
(***************************************************************************)
\* A changed file lies in directory d or below it, in a directory next to
\* d, or in a directory whose path starts with the path of d.
ChangedBelow(d) == \E f \in changedFiles : Dir(Dir(f)) = d
ChangedBeside(d) == \E f \in changedFiles : Dir(Dir(f)) = Dir(d) /\ Dir(f) # d
ChangedAtPrefix(d) ==
    \E f \in changedFiles :
        HasPrefix(f, d) /\ ~HasPrefix(f, d \o <<Sep>>)

C26_ExactDirectChange ==
    (JustReturned /\ ~Top.err /\ Top.val /\ ~DirectlyChanged(ReturnedKey))
        => \E j \in 1..Len(FindChildModules(ReturnedKey).children) :
              LET c == CacheKey(FindChildModules(ReturnedKey).children[j])
              IN  c \in DOMAIN analysisCache /\ analysisCache[c]

\* Files changed below DirA, beside it and at a path that DirA's path is a
\* prefix of, none immediately inside it: DirA is analyzed and not updated.
C26_Witness ==
    /\ JustReturned /\ ReturnedKey = DirA /\ Len(stack) = 1
    /\ ChangedBelow(DirA) /\ ChangedBeside(DirA) /\ ChangedAtPrefix(DirA)
    /\ Join(DirB, MainTf) \in changedFiles
    /\ ~DirectlyChanged(DirA)
    /\ ops.list[DirA] = 1
    /\ ~Top.val /\ ~Top.err


(***************************************************************************)
(* C27  Cache soundness: while the Analyzer is used only through           *)
(* IsModuleUpdated and ClearCache, every true entry belongs to an existing *)
(* module that has a directly changed file or a child whose entry is true, *)
(* every false entry belongs to a module that does not exist, or whose     *)
(* extraction failed, or all of whose children have a false entry, and no  *)
(* module with a directly changed file has a false entry.                  *)
(***************************************************************************)
HasEntry(k, v) == k \in DOMAIN analysisCache /\ analysisCache[k] = v

SoundTrueEntry(k) ==
    /\ Exists(k)
    /\ DirectlyChanged(k) \/ \E c \in ChildrenOf(k) : HasEntry(CacheKey(c), TRUE)

SoundFalseEntry(k) ==
    /\ ~DirectlyChanged(k)
    /\ \/ ~Exists(k)
       \/ ~ExtractOk(k)
       \/ \A c \in ChildrenOf(k) : HasEntry(CacheKey(c), FALSE)

C27_CacheSoundness ==
    \A k \in DOMAIN analysisCache :
        IF analysisCache[k] THEN SoundTrueEntry(k) ELSE SoundFalseEntry(k)

\* After a ClearCache: DirA is true through a child only, and DirB, which
\* exists and whose extraction succeeds, is false.
C27_Witness ==
    /\ caller.clears > 0
    /\ stack = <<>>
    /\ HasEntry(DirA, TRUE) /\ ~DirectlyChanged(DirA)
    /\ HasEntry(DirB, FALSE) /\ Exists(DirB) /\ ExtractOk(DirB)


(***************************************************************************)
(* C28  When IsModuleUpdated(M) returns an error, the call has written no  *)
(* cache entry for the module whose listing failed, for M, or for any      *)
(* module on the chain between them; the entries the call wrote before the *)
(* failure, and those it found, are kept; and a later IsModuleUpdated(M)   *)
(* analyzes M again instead of answering from the cache.                   *)
(***************************************************************************)
\* The outermost activation has returned an error to the caller.
CallFailed == JustReturned /\ Len(stack) = 1 /\ Top.err

\* The modules whose activations returned an error during the running call:
\* the one whose listing failed and the chain of its callers up to M.
FailedChain == {k \in KeyUniverse : ops.fail[k] > call.ops.fail[k]}
WrittenInCall == {k \in KeyUniverse : ops.write[k] > call.ops.write[k]}

NoEntryOnFailedChain ==
    /\ ReturnedKey \in FailedChain
    /\ \E k \in FailedChain : ReadDirFails(k)
    /\ \A k \in FailedChain : k \notin WrittenInCall /\ k \notin DOMAIN analysisCache

EarlierEntriesKept ==
    /\ \A k \in DOMAIN call.cache : HasEntry(k, call.cache[k])
    /\ \A k \in WrittenInCall : k \in DOMAIN analysisCache

\* Some earlier call with the same canonical argument returned an error.
FailedBefore ==
    \E n \in DOMAIN hist : hist[n].err /\ CacheKey(hist[n].arg) = CacheKey(call.arg)

\* The outermost activation is past the cache lookup and has looked at the
\* file system.
AnalyzedAgain ==
    LET k == CacheKey(call.arg)
    IN  k \notin DOMAIN call.cache /\ ops.stat[k] > call.ops.stat[k]

C28_ErrorLeavesNoEntry ==
    /\ CallFailed => NoEntryOnFailedChain /\ EarlierEntriesKept
    /\ (stack # <<>> /\ FailedBefore /\ stack[1].pc # "enter") => AnalyzedAgain

\* The second call on DirA fails like the first: DirA was analyzed again,
\* the failure came from a module DirA refers to, and the false entry the
\* first call wrote for an earlier child is still there.
C28_Witness ==
    /\ CallFailed /\ ReturnedKey = DirA /\ FailedBefore
    /\ ops.stat[DirA] = 2
    /\ Cardinality(FailedChain) >= 2
    /\ \E k \in DOMAIN call.cache : ops.write[k] = 1 /\ HasEntry(k, FALSE)


(***************************************************************************)
(* C29  Declaration order decides whether a listing failure surfaces.  As  *)
(* stated: if M has an affected child at position i and a child whose      *)
(* listing fails at position j, IsModuleUpdated(M) returns true with no    *)
(* error when i < j and returns an error when j < i.                       *)
(***************************************************************************)
\* The children of the module the outermost activation was called on, in
\* declaration order (none if its extraction fails).
ReturnedChildren ==
    LET r == FindChildModules(ReturnedKey)
    IN  IF r.err THEN <<>> ELSE r.children

OuterReturned == JustReturned /\ Len(stack) = 1

C29_Original ==
    OuterReturned =>
        \A i, j \in DOMAIN ReturnedChildren :
            (/\ i # j
             /\ Affected(CacheKey(ReturnedChildren[i]))
             /\ ReadDirFails(ReturnedChildren[j]))
                => IF i < j THEN Top.val /\ ~Top.err ELSE Top.err

\* A child that returns true whatever the cache holds: affected, with no
\* failing listing and no reference cycle below it.  A child that returns
\* false: not affected, with no failing listing and no cycle below it.
ReturnsTrue(c) == Affected(c) /\ ListableFrom(c) /\ AcyclicFrom(c)
ReturnsFalse(c) == ~Affected(c) /\ ListableFrom(c) /\ AcyclicFrom(c)

\* M is analyzed up to its loop over the children: no cache entry when the
\* call began, the directory is there and can be listed, no file immediately
\* inside it is changed, and its extraction succeeds.
ReachesChildren(k) ==
    /\ k \notin DOMAIN call.cache
    /\ Exists(k) /\ ~ReadDirFails(k)
    /\ ~DirectlyChanged(k)
    /\ ExtractOk(k)

\* C29 as the code has it: for a module that is analyzed up to its loop,
\* with a child at position i that is affected and has no failing listing or
\* cycle below it, a child at position j whose listing fails, and only
\* children that return false before both: true with no error, the failing
\* child never visited, when i < j; an error when j < i.
C29_OrderDecidesError ==
    (OuterReturned /\ ReachesChildren(ReturnedKey)) =>
        \A i, j \in DOMAIN ReturnedChildren :
            LET ci == CacheKey(ReturnedChildren[i])
                cj == CacheKey(ReturnedChildren[j])
                first == IF i < j THEN i ELSE j
            IN  (/\ i # j
                 /\ ReturnsTrue(ci)
                 /\ ReadDirFails(cj)
                 /\ \A n \in 1..(first - 1) : ReturnsFalse(CacheKey(ReturnedChildren[n])))
                    => IF i < j
                       THEN /\ Top.val /\ ~Top.err
                            /\ ops.stat[cj] = call.ops.stat[cj]
                            /\ ops.list[cj] = call.ops.list[cj]
                       ELSE Top.err

\* DirA is analyzed; its first child is affected, the listing of its second
\* child fails; DirA returns true and the second child was never looked at.
C29_Witness ==
    /\ OuterReturned /\ ReturnedKey = DirA /\ ReachesChildren(DirA)
    /\ Len(ReturnedChildren) = 2
    /\ ReturnsTrue(CacheKey(ReturnedChildren[1]))
    /\ ReadDirFails(ReturnedChildren[2])
    /\ Top.val /\ ~Top.err
    /\ ops.stat[CacheKey(ReturnedChildren[2])] = 0


(***************************************************************************)
(* C30  Only files still present are detected.  As stated: a changed path  *)
(* immediately inside M that is no longer an entry of M, or that names a   *)
(* subdirectory of M, never makes M directly changed; if every member of   *)
(* the changed-file set is such a path, IsModuleUpdated returns false for  *)
(* every module.                                                           *)
(***************************************************************************)
\* A changed path immediately inside a module directory that the directory
\* does not hold as a file: it is no entry at all, or it is a subdirectory.
NotAFileEntry(f) == Dir(f) \in ModuleDirs /\ f \notin DOMAIN files
OnlyGonePaths == \A f \in changedFiles : NotAFileEntry(f)
GoneInside(d) == \E f \in changedFiles : Dir(f) = d /\ NotAFileEntry(f)

\* M returned true although every changed path immediately inside it is no
\* file entry: a child of M has a true entry.
TrueOnlyThroughChild(k) ==
    (\A f \in changedFiles : Dir(f) = k => NotAFileEntry(f))
        => \E c \in ChildrenOf(k) : HasEntry(CacheKey(c), TRUE)

C30_Original ==
    /\ (JustReturned /\ Top.val /\ ~Top.err) => TrueOnlyThroughChild(ReturnedKey)
    /\ (JustReturned /\ OnlyGonePaths /\ changedFiles # {}) => ~Top.val /\ ~Top.err

\* C30 as the code has it: with only such paths in the changed-file set no
\* call returns true; it returns false, or the error of a failed listing.
C30_OnlyPresentFiles ==
    /\ (JustReturned /\ Top.val /\ ~Top.err) => TrueOnlyThroughChild(ReturnedKey)
    /\ (JustReturned /\ OnlyGonePaths) =>
          /\ ~Top.val
          /\ Top.err => \E k \in KeyUniverse : ReadDirFails(k) /\ ops.fail[k] > 0

\* The changed-file set holds a file deleted from DirA and the subdirectory
\* of DirA, and nothing that is a file: DirA is listed and returns false.
C30_Witness ==
    /\ OuterReturned /\ ReturnedKey = DirA
    /\ {Join(DirA, SecondTf), SubDir} \subseteq changedFiles
    /\ OnlyGonePaths /\ GoneInside(DirA)
    /\ ops.list[DirA] = 1
    /\ ~Top.val /\ ~Top.err

====
